---- MODULE Spec2Model ----
(***************************************************************************)
(* Model of ui_z80pio.h, the debug window over a Z80 PIO emulation.        *)
(*                                                                         *)
(* The state is the window struct (ui_z80pio_t), the chip the window       *)
(* points at (z80pio_t), the settings store (ui_settings_t) and the        *)
(* rendering calls issued by the last operation.  A failed CHIPS_ASSERT    *)
(* stops the program: aborted becomes TRUE and no operation is enabled.    *)
(* Floats are represented by the integer they are equal to.                *)
(***************************************************************************)
EXTENDS Integers, Sequences, FiniteSets, TLC

VARIABLES
    win,        \* the ui_z80pio_t struct
    z80pio,     \* the z80pio_t the window tracks
    settings,   \* the ui_settings_t store: a map from window title to open flag
    calls,      \* rendering calls issued by the last operation, in order
    aborted,    \* a CHIPS_ASSERT has fired
    call,       \* the last operation called and its pointer arguments
    desc,       \* the ui_z80pio_desc_t passed to the last init
    entry,      \* open, last_open and valid on entry of the last operation
    fresh,      \* the window was initialized by the last operation
    lastSaved   \* per title, the open flag of the window at its last save

vars == <<win, z80pio, settings, calls, aborted, call, desc, entry, fresh, lastSaved>>

(***************************************************************************)
(* Bounds of the model.                                                    *)
(***************************************************************************)
NumTitles == 2

TitlePool == <<"Z80 PIO", "Z80 PIO 2", "Z80 PIO 3", "Z80 PIO 4">>
Titles == {TitlePool[i] : i \in 1..NumTitles}

NULL == "NULL"
WinPtr == "&win"
PioPtr == "&pio"
SettingsPtr == "&settings"
DescPtr == "&desc"

(***************************************************************************)
(* Data types of the program.                                              *)
(***************************************************************************)
UINT8_MAX == 255
Z80PIO_NUM_PORTS == 2
Ports == 0..(Z80PIO_NUM_PORTS - 1)
PortFields == {"mode", "output", "input", "io_select", "int_control", "int_vector", "int_mask"}

\* bit masks of the interrupt control word
Z80PIO_INTCTRL_EI == 128
Z80PIO_INTCTRL_ANDOR == 64
Z80PIO_INTCTRL_HILO == 32

ZeroPort == [mode |-> 0, output |-> 0, input |-> 0, io_select |-> 0,
             int_control |-> 0, int_vector |-> 0, int_mask |-> 0]
ZeroChip == [port |-> [i \in Ports |-> ZeroPort], pins |-> 0]

\* a chip in the middle of a program: every register differs
SampleChip ==
    [port |-> [i \in Ports |->
        IF i = 0
        THEN [mode |-> 3, output |-> 165, input |-> 60, io_select |-> 15,
              int_control |-> 151, int_vector |-> 224, int_mask |-> 10]
        ELSE [mode |-> 1, output |-> 0, input |-> 255, io_select |-> 240,
              int_control |-> 96, int_vector |-> 226, int_mask |-> 129]],
     pins |-> 4660]

\* the chip with one register of one port set and everything else zero
OneRegChip(i, f, v) ==
    [port |-> [j \in Ports |-> IF j = i THEN [ZeroPort EXCEPT ![f] = v] ELSE ZeroPort],
     pins |-> v]

\* memset(win, 0, sizeof(ui_z80pio_t))
ZeroWin == [title |-> NULL, pio |-> NULL, init_x |-> 0, init_y |-> 0,
            init_w |-> 0, init_h |-> 0, open |-> FALSE, last_open |-> FALSE,
            valid |-> FALSE, chip |-> 0]

ZeroDesc == [title |-> NULL, pio |-> NULL, x |-> 0, y |-> 0, w |-> 0, h |-> 0,
             open |-> FALSE, chip_desc |-> 0]

EmptySettings == [t \in {} |-> FALSE]

(***************************************************************************)
(* (float) of an int: the nearest single-precision value, ties to even.    *)
(* Every integer of magnitude up to 2^24 is a float; beyond that only      *)
(* multiples of the unit in the last place are.                            *)
(***************************************************************************)
FLT_MANT_DIG == 24

Abs(v) == IF v < 0 THEN 0 - v ELSE v

\* the unit in the last place of the binade that holds a >= 0
RECURSIVE Ulp(_, _)
Ulp(a, u) == IF a < (2 ^ FLT_MANT_DIG) * u THEN u ELSE Ulp(a, 2 * u)

IntToFloat(v) ==
    LET a == Abs(v)
        u == Ulp(a, 1)
        q == a \div u
        r == a % u
        up == (2 * r > u) \/ (2 * r = u /\ q % 2 = 1)
        m == (IF up THEN q + 1 ELSE q) * u
    IN  IF v < 0 THEN 0 - m ELSE m

(***************************************************************************)
(* Results of an operation: the memory it leaves, the rendering calls it   *)
(* issued, and whether an assertion stopped it.                            *)
(***************************************************************************)
Mem == [win |-> win, z80pio |-> z80pio, settings |-> settings]

Ret(w, chip, s, c) ==
    [win |-> w, z80pio |-> chip, settings |-> s, calls |-> c, aborted |-> FALSE]

\* CHIPS_ASSERT(c) with c false: nothing after the assertion runs
AssertFail(m) ==
    [win |-> m.win, z80pio |-> m.z80pio, settings |-> m.settings,
     calls |-> <<>>, aborted |-> TRUE]

ImCall(fn, text, a, b) == [fn |-> fn, text |-> text, a |-> a, b |-> b]

(***************************************************************************)
(* Collaborators outside this file.                                        *)
(***************************************************************************)
\* the pin-diagram widget keeps the description it is initialized from
ui_chip_init(chip_desc) == chip_desc

\* the pin-diagram widget draws the pin bitmask it is handed
ui_chip_draw(chip, pins) == ImCall("ui_chip_draw", "", chip, pins)

\* bring last_open in line with the current open flag
ui_util_handle_window_open_dirty(cur_open, last_open) ==
    IF cur_open # last_open THEN cur_open ELSE last_open

MapPut(s, k, v) == [t \in (DOMAIN s) \cup {k} |-> IF t = k THEN v ELSE s[t]]

\* the store keeps one open flag per window title
ui_settings_add(s, title, open) == MapPut(s, title, open)

\* the flag stored under the title; the store decides what an unknown title gives
ui_settings_isopen(s, title, unknown) ==
    IF title \in DOMAIN s THEN s[title] ELSE unknown

\* the store is keyed by a string: a null title is a precondition violation
ui_settings_title_ok(title) == title # NULL

(***************************************************************************)
(* ui_z80pio_init and ui_z80pio_discard                                    *)
(***************************************************************************)
\* line 113: the initial width, 360 when the config leaves it 0
init_w(d) == IntToFloat(IF d.w = 0 THEN 360 ELSE d.w)

\* the default height decided by the width
init_h_by_width(d) == IntToFloat(IF d.w = 0 THEN 364 ELSE d.h)

\* line 114: the initial height, 364 when the config leaves it 0
init_h(d) == IntToFloat(IF d.h = 0 THEN 364 ELSE d.h)

\* init that sets open and leaves last_open as memset left it
ui_z80pio_init_open_only(m, winp, descp, d) ==
    IF winp = NULL \/ descp = NULL THEN AssertFail(m)
    ELSE IF d.title = NULL THEN AssertFail(m)
    ELSE IF d.pio = NULL THEN AssertFail(m)
    ELSE Ret([ZeroWin EXCEPT
                !.title = d.title,
                !.pio = d.pio,
                !.init_x = IntToFloat(d.x),
                !.init_y = IntToFloat(d.y),
                !.init_w = init_w(d),
                !.init_h = init_h(d),
                !.open = d.open,
                !.valid = TRUE,
                !.chip = ui_chip_init(d.chip_desc)],
             m.z80pio, m.settings, <<>>)

ui_z80pio_init(m, winp, descp, d) ==
    IF winp = NULL \/ descp = NULL THEN AssertFail(m)
    ELSE IF d.title = NULL THEN AssertFail(m)
    ELSE IF d.pio = NULL THEN AssertFail(m)
    ELSE Ret([ZeroWin EXCEPT
                !.title = d.title,
                !.pio = d.pio,
                !.init_x = IntToFloat(d.x),
                !.init_y = IntToFloat(d.y),
                !.init_w = init_w(d),
                !.init_h = init_h(d),
                !.open = d.open,
                !.last_open = d.open,
                !.valid = TRUE,
                !.chip = ui_chip_init(d.chip_desc)],
             m.z80pio, m.settings, <<>>)

\* discard that also wipes the chip it points at
ui_z80pio_discard_wipes_chip(m, winp) ==
    IF winp = NULL \/ ~m.win.valid THEN AssertFail(m)
    ELSE Ret([m.win EXCEPT !.valid = FALSE], ZeroChip, m.settings, <<>>)

ui_z80pio_discard(m, winp) ==
    IF winp = NULL \/ ~m.win.valid THEN AssertFail(m)
    ELSE Ret([m.win EXCEPT !.valid = FALSE], m.z80pio, m.settings, <<>>)

(***************************************************************************)
(* Formatting                                                              *)
(***************************************************************************)
\* the mode masked to its two low bits: no value is invalid
_ui_z80pio_mode_str_masked(mode) ==
    CASE mode % 4 = 0 -> "OUT"
      [] mode % 4 = 1 -> "INP"
      [] mode % 4 = 2 -> "BDIR"
      [] OTHER -> "BITC"

_ui_z80pio_mode_str(mode) ==
    CASE mode = 0 -> "OUT"
      [] mode = 1 -> "INP"
      [] mode = 2 -> "BDIR"
      [] mode = 3 -> "BITC"
      [] OTHER -> "INVALID"

HexDigitsUpper == <<"0", "1", "2", "3", "4", "5", "6", "7",
                    "8", "9", "A", "B", "C", "D", "E", "F">>

\* the digits of n >= 0 in base 16, most significant first
RECURSIVE HexStr(_)
HexStr(n) ==
    IF n < 16 THEN HexDigitsUpper[n + 1]
    ELSE HexStr(n \div 16) \o HexDigitsUpper[(n % 16) + 1]

RECURSIVE ZeroPad(_, _)
ZeroPad(s, width) == IF Len(s) >= width THEN s ELSE ZeroPad("0" \o s, width)

\* printf("%X", n): no padding
Fmt_X(n) == ZeroPad(HexStr(n), 1)

\* printf("%02X", n)
Fmt_02X(n) == ZeroPad(HexStr(n), 2)

\* a & b on naturals
RECURSIVE BitAnd(_, _)
BitAnd(a, b) ==
    IF a = 0 \/ b = 0 THEN 0
    ELSE (a % 2) * (b % 2) + 2 * BitAnd(a \div 2, b \div 2)

\* int_control && Z80PIO_INTCTRL_EI: any bit set gives "EI"
ei_di_str_logical_and(int_control) ==
    IF int_control # 0 /\ Z80PIO_INTCTRL_EI # 0 THEN "EI" ELSE "DI"

ei_di_str(int_control) ==
    IF BitAnd(int_control, Z80PIO_INTCTRL_EI) # 0 THEN "EI" ELSE "DI"

and_or_str(int_control) ==
    IF BitAnd(int_control, Z80PIO_INTCTRL_ANDOR) # 0 THEN "AND" ELSE "OR"

hi_lo_str(int_control) ==
    IF BitAnd(int_control, Z80PIO_INTCTRL_HILO) # 0 THEN "HI" ELSE "LO"

Text(s) == ImCall("Text", s, 0, 0)
TableNextColumn == ImCall("TableNextColumn", "", 0, 0)

\* one for-loop over the ports: a cell per port, PA first
RECURSIVE PortCells(_, _)
PortCells(cell, i) ==
    IF i >= Z80PIO_NUM_PORTS THEN <<>>
    ELSE <<Text(cell[i]), TableNextColumn>> \o PortCells(cell, i + 1)

TableRow(label, cell) == <<Text(label), TableNextColumn>> \o PortCells(cell, 0)

_ui_z80pio_ports(pio, tableRet) ==
    <<ImCall("BeginTable", "##pio_columns", 3, 0)>> \o
    (IF tableRet
     THEN <<ImCall("TableSetupColumn", "", 64, 0),
            ImCall("TableSetupColumn", "PA", 32, 0),
            ImCall("TableSetupColumn", "PB", 32, 0),
            ImCall("TableHeadersRow", "", 0, 0),
            TableNextColumn>> \o
          TableRow("Mode", [i \in Ports |-> _ui_z80pio_mode_str(pio.port[i].mode)]) \o
          TableRow("Output", [i \in Ports |-> Fmt_02X(pio.port[i].output)]) \o
          TableRow("Input", [i \in Ports |-> Fmt_02X(pio.port[i].input)]) \o
          TableRow("IO Select", [i \in Ports |-> Fmt_02X(pio.port[i].io_select)]) \o
          TableRow("INT Ctrl", [i \in Ports |-> Fmt_02X(pio.port[i].int_control)]) \o
          TableRow("  ei/di", [i \in Ports |-> ei_di_str(pio.port[i].int_control)]) \o
          TableRow("  and/or", [i \in Ports |-> and_or_str(pio.port[i].int_control)]) \o
          TableRow("  hi/lo", [i \in Ports |-> hi_lo_str(pio.port[i].int_control)]) \o
          TableRow("INT Vec", [i \in Ports |-> Fmt_02X(pio.port[i].int_vector)]) \o
          TableRow("INT Mask", [i \in Ports |-> Fmt_02X(pio.port[i].int_mask)]) \o
          <<ImCall("EndTable", "", 0, 0)>>
     ELSE <<>>)

(***************************************************************************)
(* ui_z80pio_draw.  userClose: the user clicks the close box this frame;   *)
(* beginRet: ImGui::Begin reports the window as not collapsed; tableRet:   *)
(* ImGui::BeginTable reports the table as visible.                         *)
(***************************************************************************)
\* ImGui::Begin(title, &open) clears open when the close box is clicked
ImGui_Begin_open(open, userClose) == IF userClose THEN FALSE ELSE open

\* the arguments swapped: open is brought in line with last_open
draw_reconcile_swapped(w) ==
    [w EXCEPT !.open = ui_util_handle_window_open_dirty(w.last_open, w.open)]

\* line 189: the reconciliation of open and last_open
draw_reconcile(w) ==
    [w EXCEPT !.last_open = ui_util_handle_window_open_dirty(w.open, w.last_open)]

\* lines 193-204: the rendering calls of an open window
draw_window(w, pio, beginRet, tableRet) ==
    <<ImCall("SetNextWindowPos", "", w.init_x, w.init_y),
      ImCall("SetNextWindowSize", "", w.init_w, w.init_h),
      ImCall("Begin", w.title, 0, 0)>> \o
    (IF beginRet
     THEN <<ImCall("BeginChild", "##pio_chip", 176, 0),
            ui_chip_draw(w.chip, pio.pins),
            ImCall("EndChild", "", 0, 0),
            ImCall("SameLine", "", 0, 0),
            ImCall("BeginChild", "##pio_vals", 0, 0)>> \o
          _ui_z80pio_ports(pio, tableRet) \o
          <<ImCall("EndChild", "", 0, 0)>>
     ELSE <<>>) \o
    <<ImCall("End", "", 0, 0)>>

\* draw without the early return of a closed window
ui_z80pio_draw_no_return(m, winp, userClose, beginRet, tableRet) ==
    IF winp = NULL \/ ~m.win.valid \/ m.win.title = NULL \/ m.win.pio = NULL
    THEN AssertFail(m)
    ELSE
      LET w1 == draw_reconcile(m.win)
      IN  Ret([w1 EXCEPT !.open = ImGui_Begin_open(w1.open, userClose)],
              m.z80pio, m.settings,
              draw_window(w1, m.z80pio, beginRet, tableRet))

ui_z80pio_draw(m, winp, userClose, beginRet, tableRet) ==
    IF winp = NULL \/ ~m.win.valid \/ m.win.title = NULL \/ m.win.pio = NULL
    THEN AssertFail(m)
    ELSE
      LET w1 == draw_reconcile(m.win)
      IN  IF ~w1.open THEN Ret(w1, m.z80pio, m.settings, <<>>)
          ELSE Ret([w1 EXCEPT !.open = ImGui_Begin_open(w1.open, userClose)],
                   m.z80pio, m.settings,
                   draw_window(w1, m.z80pio, beginRet, tableRet))

(***************************************************************************)
(* ui_z80pio_save_settings and ui_z80pio_load_settings                     *)
(***************************************************************************)
\* save that stores last_open instead of open
ui_z80pio_save_settings_last_open(m, winp, settingsp) ==
    IF winp = NULL \/ settingsp = NULL THEN AssertFail(m)
    ELSE IF ~ui_settings_title_ok(m.win.title) THEN AssertFail(m)
    ELSE Ret(m.win, m.z80pio,
             ui_settings_add(m.settings, m.win.title, m.win.last_open), <<>>)

ui_z80pio_save_settings(m, winp, settingsp) ==
    IF winp = NULL \/ settingsp = NULL THEN AssertFail(m)
    ELSE IF ~ui_settings_title_ok(m.win.title) THEN AssertFail(m)
    ELSE Ret(m.win, m.z80pio, ui_settings_add(m.settings, m.win.title, m.win.open), <<>>)

ui_z80pio_load_settings(m, winp, settingsp, unknown) ==
    IF winp = NULL \/ settingsp = NULL THEN AssertFail(m)
    ELSE IF ~ui_settings_title_ok(m.win.title) THEN AssertFail(m)
    ELSE Ret([m.win EXCEPT !.open = ui_settings_isopen(m.settings, m.win.title, unknown)],
             m.z80pio, m.settings, <<>>)

(***************************************************************************)
(* Inputs                                                                  *)
(***************************************************************************)
Ptrs(p) == {NULL, p}

MainGeoms == {[x |-> 0, y |-> 0, w |-> 0, h |-> 0],
              [x |-> 10, y |-> 20, w |-> 640, h |-> 480]}

\* positions and sizes: negative, zero, ordinary, and beyond 2^24
XVals == {0, 10, 16777217}
YVals == {-3, 0}
WVals == {-3, 0, 640, 16777217}
HVals == {-16777217, 0, 480}
AllGeoms == [x : XVals, y : YVals, w : WVals, h : HVals]

\* a null title or chip stops init before it reads the geometry
Descs(G) ==
    {[title |-> t, pio |-> PioPtr, x |-> g.x, y |-> g.y, w |-> g.w, h |-> g.h,
      open |-> o, chip_desc |-> 1] : t \in Titles, g \in G, o \in BOOLEAN}
    \cup
    {[ZeroDesc EXCEPT !.title = t, !.pio = p, !.open = o, !.chip_desc = 1] :
        t \in Titles \cup {NULL}, p \in Ptrs(PioPtr), o \in BOOLEAN}

\* the arguments of an init call: with a null pointer there is no desc to read
InitArgs(D) ==
    {<<WinPtr, DescPtr, d>> : d \in D}
    \cup {<<NULL, DescPtr, ZeroDesc>>, <<WinPtr, NULL, ZeroDesc>>}

MainChips == {ZeroChip, SampleChip}
Bytes == 0..UINT8_MAX
OneRegChips == {OneRegChip(i, f, v) : i \in Ports, f \in PortFields, v \in Bytes}

(***************************************************************************)
(* Actions: one per operation of the window, plus the host application     *)
(* writing the public open field and the emulation running the chip.       *)
(***************************************************************************)
Snap == [open |-> win.open, last_open |-> win.last_open, valid |-> win.valid]

Apply(r, fn, winp, argp) ==
    /\ win' = r.win
    /\ z80pio' = r.z80pio
    /\ settings' = r.settings
    /\ calls' = r.calls
    /\ aborted' = r.aborted
    /\ call' = [fn |-> fn, win |-> winp, arg |-> argp]
    /\ entry' = Snap

InitOp(D) ==
    /\ ~aborted
    /\ \E a \in InitArgs(D) :
         LET r == ui_z80pio_init(Mem, a[1], a[2], a[3])
         IN  /\ Apply(r, "init", a[1], a[2])
             /\ desc' = a[3]
             /\ fresh' = ~r.aborted
    /\ UNCHANGED lastSaved

Init_ == InitOp(Descs(MainGeoms))

InitGeom == InitOp(Descs(AllGeoms))

Discard ==
    /\ ~aborted
    /\ \E winp \in Ptrs(WinPtr) :
         Apply(ui_z80pio_discard(Mem, winp), "discard", winp, NULL)
    /\ fresh' = FALSE
    /\ UNCHANGED <<desc, lastSaved>>

Draw ==
    /\ ~aborted
    /\ \E winp \in Ptrs(WinPtr), userClose \in BOOLEAN,
          beginRet \in BOOLEAN, tableRet \in BOOLEAN :
         Apply(ui_z80pio_draw(Mem, winp, userClose, beginRet, tableRet),
               "draw", winp, NULL)
    /\ fresh' = FALSE
    /\ UNCHANGED <<desc, lastSaved>>

SaveSettings ==
    /\ ~aborted
    /\ \E winp \in Ptrs(WinPtr), settingsp \in Ptrs(SettingsPtr) :
         LET r == ui_z80pio_save_settings(Mem, winp, settingsp)
         IN  /\ Apply(r, "save_settings", winp, settingsp)
             /\ lastSaved' = IF r.aborted THEN lastSaved
                             ELSE MapPut(lastSaved, win.title, win.open)
    /\ UNCHANGED <<desc, fresh>>

LoadSettings ==
    /\ ~aborted
    /\ \E winp \in Ptrs(WinPtr), settingsp \in Ptrs(SettingsPtr), unknown \in BOOLEAN :
         Apply(ui_z80pio_load_settings(Mem, winp, settingsp, unknown),
               "load_settings", winp, settingsp)
    /\ UNCHANGED <<desc, fresh, lastSaved>>

\* the host application opens or closes the window through the public field
SetOpen ==
    /\ ~aborted
    /\ \E b \in BOOLEAN :
         Apply(Ret([win EXCEPT !.open = b], z80pio, settings, <<>>),
               "set_open", WinPtr, NULL)
    /\ fresh' = FALSE
    /\ UNCHANGED <<desc, lastSaved>>

\* the emulation runs: the chip's registers and pins change
z80pio_exec ==
    /\ ~aborted
    /\ \E c \in MainChips :
         /\ c # z80pio
         /\ Apply(Ret(win, c, settings, <<>>), "exec", NULL, NULL)
    /\ UNCHANGED <<desc, fresh, lastSaved>>

(***************************************************************************)
(* Specifications                                                          *)
(***************************************************************************)
\* the window struct in static storage before the first ui_z80pio_init
Init ==
    /\ win = ZeroWin
    /\ z80pio = ZeroChip
    /\ settings = EmptySettings
    /\ calls = <<>>
    /\ aborted = FALSE
    /\ call = [fn |-> "none", win |-> NULL, arg |-> NULL]
    /\ desc = ZeroDesc
    /\ entry = [open |-> FALSE, last_open |-> FALSE, valid |-> FALSE]
    /\ fresh = FALSE
    /\ lastSaved = EmptySettings

Next ==
    \/ Init_
    \/ Discard
    \/ Draw
    \/ SaveSettings
    \/ LoadSettings
    \/ SetOpen
    \/ z80pio_exec

Spec == Init /\ [][Next]_vars

\* init and discard alone, over every combination of the geometry values
NextGeom ==
    \/ InitGeom
    \/ Discard

SpecGeom == Init /\ [][NextGeom]_vars

\* an open window drawn over a chip with one register set to any 8-bit value
FmtDesc == [title |-> TitlePool[1], pio |-> PioPtr, x |-> 0, y |-> 0,
            w |-> 0, h |-> 0, open |-> TRUE, chip_desc |-> 1]

InitFmt ==
    /\ win = ui_z80pio_init([win |-> ZeroWin, z80pio |-> ZeroChip,
                             settings |-> EmptySettings],
                            WinPtr, DescPtr, FmtDesc).win
    /\ z80pio \in OneRegChips
    /\ settings = EmptySettings
    /\ calls = <<>>
    /\ aborted = FALSE
    /\ call = [fn |-> "init", win |-> WinPtr, arg |-> DescPtr]
    /\ desc = FmtDesc
    /\ entry = [open |-> FALSE, last_open |-> FALSE, valid |-> FALSE]
    /\ fresh = TRUE
    /\ lastSaved = EmptySettings

NextFmt == Draw

SpecFmt == InitFmt /\ [][NextFmt]_vars

(***************************************************************************)
(* Properties                                                              *)
(***************************************************************************)
WindowOps == {"init", "discard", "draw", "save_settings", "load_settings"}

Called(fn) == call.fn = fn /\ call.win # NULL

\* C1: draw, save_settings, load_settings and discard on a window whose valid
\* flag is false are caught by an assertion; none of them runs to completion.
C1_ValidRequired ==
    (call.fn \in {"draw", "save_settings", "load_settings", "discard"} /\ ~entry.valid)
        => aborted

\* C2: after init with a non-null title and chip, open and last_open both equal
\* the config's open flag and valid is true, whatever the struct held before.
C2_InitOpenFlags ==
    (Called("init") /\ call.arg # NULL /\ desc.title # NULL /\ desc.pio # NULL)
        => (~aborted /\ win.open = desc.open /\ win.last_open = desc.open /\ win.valid)

\* a discarded window that was open is initialized again as closed
C2_Witness ==
    /\ Called("init") /\ ~aborted
    /\ entry.open /\ entry.last_open /\ ~entry.valid
    /\ ~desc.open /\ ~win.open /\ ~win.last_open /\ win.valid

\* C3: load_settings on a freshly initialized window gives it the open flag
\* that the last save_settings of a window with the same title stored.
C3_RoundTrip ==
    (Called("load_settings") /\ ~aborted /\ fresh /\ win.title \in DOMAIN lastSaved)
        => win.open = lastSaved[win.title]

\* an open window was saved; a fresh window initialized as closed loads open
C3_Witness ==
    /\ Called("load_settings") /\ ~aborted /\ fresh
    /\ win.title \in DOMAIN lastSaved
    /\ lastSaved[win.title] /\ ~desc.open /\ ~entry.open /\ win.open

\* C4: draw on a valid, closed window issues no rendering call and changes no
\* field of the window other than last_open.
C4_ClosedDraw ==
    [][(call'.fn = "draw" /\ call'.win # NULL /\ win.valid /\ ~win.open)
        => (/\ ~aborted'
            /\ calls' = <<>>
            /\ win' = [win EXCEPT !.last_open = win'.last_open])]_vars

\* a window closed since the last frame is drawn: only last_open follows
C4_Witness ==
    /\ Called("draw") /\ ~aborted
    /\ ~entry.open /\ entry.last_open /\ entry.valid
    /\ calls = <<>> /\ ~win.open /\ ~win.last_open /\ win.valid

\* C5: no operation of the window changes the chip it points at.
C5_ChipReadOnly ==
    [][call'.fn \in WindowOps => z80pio' = z80pio]_vars

\* the table of a running chip has been drawn and the chip is as it was
C5_Witness ==
    /\ Called("draw") /\ ~aborted
    /\ \E k \in 1..Len(calls) : calls[k].fn = "EndTable"
    /\ z80pio = SampleChip

\* an int that a float holds exactly
FloatExact(v) == Abs(v) <= 16777216

\* C6 as stated: width 0 gives 360, height 0 gives 364, and every other width
\* or height and every x and y is stored unchanged.
C6_GeometryUnchanged ==
    (Called("init") /\ ~aborted)
        => (/\ win.init_w = (IF desc.w = 0 THEN 360 ELSE desc.w)
            /\ win.init_h = (IF desc.h = 0 THEN 364 ELSE desc.h)
            /\ win.init_x = desc.x
            /\ win.init_y = desc.y)

\* C6 as amended: width 0 gives 360, height 0 gives 364, each on its own, and
\* every other width or height and every x and y of magnitude up to 2^24 is
\* stored unchanged.
C6_GeometryExact ==
    (Called("init") /\ ~aborted)
        => (/\ desc.w = 0 => win.init_w = 360
            /\ desc.h = 0 => win.init_h = 364
            /\ (desc.w # 0 /\ FloatExact(desc.w)) => win.init_w = desc.w
            /\ (desc.h # 0 /\ FloatExact(desc.h)) => win.init_h = desc.h
            /\ FloatExact(desc.x) => win.init_x = desc.x
            /\ FloatExact(desc.y) => win.init_y = desc.y)

\* a negative width is kept while the height of 0 becomes the default
C6_Witness ==
    /\ Called("init") /\ ~aborted
    /\ desc.w = -3 /\ desc.h = 0 /\ desc.x = 10 /\ desc.y = -3
    /\ win.init_w = -3 /\ win.init_h = 364 /\ win.init_x = 10 /\ win.init_y = -3

(***************************************************************************)
(* The table as it appears on screen: TableNextColumn moves to the next    *)
(* cell, left to right and then to the next row of the three columns, and  *)
(* Text writes into the current cell.                                      *)
(***************************************************************************)
IsCellCall(k) == k.fn \in {"Text", "TableNextColumn"}

CellCalls == SelectSeq(calls, IsCellCall)

\* the position in s, from i on, of the n-th TableNextColumn; 0 if there is none
RECURSIVE NthColumn(_, _, _)
NthColumn(s, i, n) ==
    IF i > Len(s) THEN 0
    ELSE IF s[i].fn = "TableNextColumn"
         THEN IF n = 1 THEN i ELSE NthColumn(s, i + 1, n - 1)
         ELSE NthColumn(s, i + 1, n)

\* the text of the cell in row r (0 is the first row below the header) and
\* column c (0 the label, 1 PA, 2 PB)
Cell(r, c) ==
    LET s == CellCalls
        p == NthColumn(s, 1, 3 * r + c + 1)
    IN  IF p = 0 \/ p = Len(s) THEN ""
        ELSE IF s[p + 1].fn = "Text" THEN s[p + 1].text ELSE ""

TableDrawn ==
    /\ Called("draw") /\ ~aborted
    /\ \E k \in 1..Len(calls) : calls[k].fn = "TableHeadersRow"

ModeNames == <<"OUT", "INP", "BDIR", "BITC">>

\* C7: the Mode row shows OUT, INP, BDIR, BITC for the modes 0..3 and INVALID
\* for every other 8-bit mode, in the PA column for port 0 and PB for port 1.
C7_ModeRow ==
    TableDrawn =>
        /\ Cell(0, 0) = "Mode"
        /\ \A i \in Ports :
             LET mode == z80pio.port[i].mode
             IN  Cell(0, i + 1) = IF mode \in 0..3 THEN ModeNames[mode + 1] ELSE "INVALID"

\* port B in mode 255 shows INVALID while port A in mode 0 shows OUT
C7_Witness ==
    /\ TableDrawn
    /\ z80pio.port[1].mode = 255 /\ z80pio.port[0].mode = 0
    /\ Cell(0, 1) = "OUT" /\ Cell(0, 2) = "INVALID"

BitSet(v, mask) == (v \div mask) % 2 = 1

\* C8: the ei/di, and/or and hi/lo rows show EI, AND, HI exactly when the
\* row's bit of the port's int_control is set, and DI, OR, LO otherwise.
C8_FlagRows ==
    TableDrawn =>
        /\ Cell(5, 0) = "  ei/di" /\ Cell(6, 0) = "  and/or" /\ Cell(7, 0) = "  hi/lo"
        /\ \A i \in Ports :
             LET v == z80pio.port[i].int_control
             IN  /\ Cell(5, i + 1) = IF BitSet(v, Z80PIO_INTCTRL_EI) THEN "EI" ELSE "DI"
                 /\ Cell(6, i + 1) = IF BitSet(v, Z80PIO_INTCTRL_ANDOR) THEN "AND" ELSE "OR"
                 /\ Cell(7, i + 1) = IF BitSet(v, Z80PIO_INTCTRL_HILO) THEN "HI" ELSE "LO"

\* int_control 5F: every bit but the enable and hi/lo bits, and the and/or bit
C8_Witness ==
    /\ TableDrawn
    /\ z80pio.port[0].int_control = 95
    /\ Cell(5, 1) = "DI" /\ Cell(6, 1) = "AND" /\ Cell(7, 1) = "LO"

HexValue ==
    [c \in {"0", "1", "2", "3", "4", "5", "6", "7", "8", "9", "A", "B", "C", "D", "E", "F"} |->
        CASE c = "0" -> 0 [] c = "1" -> 1 [] c = "2" -> 2 [] c = "3" -> 3
          [] c = "4" -> 4 [] c = "5" -> 5 [] c = "6" -> 6 [] c = "7" -> 7
          [] c = "8" -> 8 [] c = "9" -> 9 [] c = "A" -> 10 [] c = "B" -> 11
          [] c = "C" -> 12 [] c = "D" -> 13 [] c = "E" -> 14 [] c = "F" -> 15]

\* t is two uppercase hex digits that spell v
TwoHexDigits(t, v) ==
    /\ Len(t) = 2
    /\ \E a, b \in DOMAIN HexValue : t = a \o b /\ 16 * HexValue[a] + HexValue[b] = v

HexRows == {<<1, "output">>, <<2, "input">>, <<3, "io_select">>,
            <<4, "int_control">>, <<8, "int_vector">>, <<9, "int_mask">>}

\* C9: the Output, Input, IO Select, INT Ctrl, INT Vec and INT Mask rows show
\* each register of each port as exactly two uppercase hex digits of its value.
C9_HexRows ==
    TableDrawn =>
        \A i \in Ports, rf \in HexRows :
            TwoHexDigits(Cell(rf[1], i + 1), z80pio.port[i][rf[2]])

\* an interrupt mask of 10 shows as 0A, next to the 00 of the other port
C9_Witness ==
    /\ TableDrawn
    /\ z80pio.port[0].int_mask = 10
    /\ Cell(9, 0) = "INT Mask" /\ Cell(9, 1) = "0A" /\ Cell(9, 2) = "00"

\* C10: when draw returns, last_open is the open flag draw was entered with,
\* and draw changes open only from true to false.
C10_Reconcile ==
    (Called("draw") /\ ~aborted)
        => (/\ win.last_open = entry.open
            /\ win.open => entry.open)

\* a window opened by the host is drawn and closed by the user in that frame
C10_Witness ==
    /\ Called("draw") /\ ~aborted
    /\ entry.open /\ ~entry.last_open
    /\ win.last_open /\ ~win.open /\ calls # <<>>

====
